---- MODULE Spec2Model ----
(***************************************************************************)
(* LFUCache<Key, Value, MaxSize> of src/lfu_cache.h: a fixed-size node     *)
(* pool, a free-slot stack, the key -> node index, the frequency -> list   *)
(* map and the running minimum frequency, with one action per public      *)
(* operation.  Node pointers are pool indices; NULL is the null pointer.   *)
(***************************************************************************)
EXTENDS Integers, Sequences, FiniteSets, TLC

\* ---------------------------------------------------------------- bounds
MaxSize == 3        \* template parameter MaxSize
NumKeys == 4        \* keys are 1..NumKeys
NumValues == 2      \* values are 1..NumValues
MaxFreq == 3        \* no hit is taken on a key whose access count is MaxFreq
IntWidth == 3       \* width in bits of the model's int (the code's is 32)

Keys == 1..NumKeys
Values == 1..NumValues
Slots == 0..(MaxSize - 1)

NULL == -1          \* nullptr
DefaultValue == 0   \* Value{} of an arithmetic Value type
Indeterminate == -2 \* content of a default-initialized int

\* ------------------------------------------------------------------ state
VARIABLES
    minFrequency_,     \* int minFrequency_
    nodePool_,         \* std::array<Node, MaxSize>
    freeNodes_,        \* std::array<int, MaxSize>
    poolSize_,         \* int poolSize_
    freeCount_,        \* int freeCount_
    keyToNode_,        \* unordered_map<Key, Node*>: key -> slot, NULL = no entry
    frequencyToList_,  \* unordered_map<int, FrequencyList>: a function on the present frequencies
    fault,             \* "none", or how the process ended
    hits,              \* history: 1 + hits since the last insertion (0 = not inserted)
    touchOrder,        \* history: contained keys, most recently touched first
    scen,              \* history: progress through scenarios A and B since construction or clear
    fresh,             \* history: no clear() since construction
    call               \* history: the observed call and what it returned

vars == <<minFrequency_, nodePool_, freeNodes_, poolSize_, freeCount_,
          keyToNode_, frequencyToList_, fault, hits, touchOrder,
          scen, fresh, call>>

\* ------------------------------------------------------------------ Node
Node0 == [frequency |-> 0, prev |-> NULL, next |-> NULL,
          key |-> Indeterminate, value |-> Indeterminate]

Node(k, v, f) == [frequency |-> f, prev |-> NULL, next |-> NULL,
                  key |-> k, value |-> v]

\* --------------------------------------------------------- FrequencyList
\* A list operation works on the pair (pool, list): it writes the link
\* fields of nodes and the head/tail/size of the list.
FrequencyList0 == [head |-> NULL, tail |-> NULL, size |-> 0]

\* mutant: the node is linked behind the tail instead of before the head
addToTail(pool, list, node) ==
    LET p1 == [pool EXCEPT ![node].next = NULL, ![node].prev = list.tail]
        p2 == IF list.tail # NULL
              THEN [p1 EXCEPT ![list.tail].next = node]
              ELSE p1
    IN [pool |-> p2,
        list |-> [head |-> IF list.head = NULL THEN node ELSE list.head,
                  tail |-> node,
                  size |-> list.size + 1]]

addToHead(pool, list, node) ==
    LET p1 == [pool EXCEPT ![node].prev = NULL, ![node].next = list.head]
        p2 == IF list.head # NULL
              THEN [p1 EXCEPT ![list.head].prev = node]
              ELSE p1
    IN [pool |-> p2,
        list |-> [head |-> node,
                  tail |-> IF list.tail = NULL THEN node ELSE list.tail,
                  size |-> list.size + 1]]

remove(pool, list, node) ==
    LET hasPrev == pool[node].prev # NULL
        p1 == IF hasPrev
              THEN [pool EXCEPT ![pool[node].prev].next = pool[node].next]
              ELSE pool
        l1 == IF hasPrev THEN list ELSE [list EXCEPT !.head = pool[node].next]
        hasNext == p1[node].next # NULL
        p2 == IF hasNext
              THEN [p1 EXCEPT ![p1[node].next].prev = p1[node].prev]
              ELSE p1
        l2 == IF hasNext THEN l1 ELSE [l1 EXCEPT !.tail = p1[node].prev]
        p3 == [p2 EXCEPT ![node].prev = NULL, ![node].next = NULL]
    IN [pool |-> p3, list |-> [l2 EXCEPT !.size = l2.size - 1]]

empty(list) == list.size = 0

\* --------------------------------------------------------- map helpers
Erase(m, f) == [g \in (DOMAIN m) \ {f} |-> m[g]]

\* operator[]: the mapped list, default-constructed when absent
At(m, f) == IF f \in DOMAIN m THEN m[f] ELSE FrequencyList0

Store(m, f, list) == [g \in (DOMAIN m) \cup {f} |-> IF g = f THEN list ELSE m[g]]

\* ------------------------------------------------------------ the object
\* The cache as one record, so that the private member functions are
\* operators from cache to cache.
Cache == [minFrequency_ |-> minFrequency_, nodePool_ |-> nodePool_,
          freeNodes_ |-> freeNodes_, poolSize_ |-> poolSize_,
          freeCount_ |-> freeCount_, keyToNode_ |-> keyToNode_,
          frequencyToList_ |-> frequencyToList_, fault |-> fault]

size(c) == Cardinality({k \in Keys : c.keyToNode_[k] # NULL})

capacity == MaxSize

contains(c, key) == c.keyToNode_[key] # NULL

\* allocateNode: the cache after the call and the node returned
allocateNode(c, key, value, frequency) ==
    IF c.freeCount_ > 0
    THEN LET idx == c.freeNodes_[c.freeCount_ - 1]
         IN [c |-> [c EXCEPT !.freeCount_ = c.freeCount_ - 1,
                             !.nodePool_[idx] = Node(key, value, frequency)],
             node |-> idx]
    ELSE IF c.poolSize_ >= MaxSize
    THEN [c |-> [c EXCEPT !.fault = "pool_exhausted"], node |-> NULL]
    ELSE [c |-> [c EXCEPT !.nodePool_[c.poolSize_] = Node(key, value, frequency),
                          !.poolSize_ = c.poolSize_ + 1],
          node |-> c.poolSize_]

deallocateNode(c, node) ==
    IF c.freeCount_ >= MaxSize
    THEN [c EXCEPT !.fault = "free_stack_overflow"]
    ELSE [c EXCEPT !.freeNodes_[c.freeCount_] = node,
                   !.freeCount_ = c.freeCount_ + 1]

\* the range of int at width IntWidth
IntMax == 2 ^ (IntWidth - 1) - 1

IntMin == 0 - 2 ^ (IntWidth - 1)

\* x + 1 on an int as a two's complement build computes it: the sum is kept
\* below IntMax, and the increment of IntMax, which the language leaves
\* undefined, comes out as IntMin
Increment(x) == ((x + 1 - IntMin) % (2 ^ IntWidth)) + IntMin

updateFrequency(c, node) ==
    LET oldFreq == c.nodePool_[node].frequency
        newFreq == Increment(oldFreq)
        found == oldFreq \in DOMAIN c.frequencyToList_
        r1 == remove(c.nodePool_, At(c.frequencyToList_, oldFreq), node)
        pool1 == IF found THEN r1.pool ELSE c.nodePool_
        map1 == IF ~found THEN c.frequencyToList_
                ELSE IF empty(r1.list) THEN Erase(c.frequencyToList_, oldFreq)
                ELSE Store(c.frequencyToList_, oldFreq, r1.list)
        pool2 == [pool1 EXCEPT ![node].frequency = newFreq]
        r2 == addToHead(pool2, At(map1, newFreq), node)
        map2 == Store(map1, newFreq, r2.list)
    IN [c EXCEPT !.nodePool_ = r2.pool,
                 !.frequencyToList_ = map2,
                 !.minFrequency_ =
                     IF oldFreq = c.minFrequency_ /\ c.minFrequency_ \notin DOMAIN map2
                     THEN Increment(c.minFrequency_)
                     ELSE c.minFrequency_]

\* mutant: the victim is unlinked and its slot released, but its key stays
\* in the key index
evictLFU_keepsKey(c) ==
    IF size(c) < MaxSize THEN c
    ELSE IF c.minFrequency_ \notin DOMAIN c.frequencyToList_ THEN c
    ELSE IF empty(c.frequencyToList_[c.minFrequency_]) THEN c
    ELSE LET list == c.frequencyToList_[c.minFrequency_]
             lru == list.tail
         IN IF lru = NULL THEN [c EXCEPT !.fault = "null_deref"]
            ELSE LET r == remove(c.nodePool_, list, lru)
                     c2 == deallocateNode([c EXCEPT !.nodePool_ = r.pool], lru)
                 IN IF c2.fault # "none" THEN c2
                    ELSE [c2 EXCEPT !.frequencyToList_ =
                             IF empty(r.list)
                             THEN Erase(c.frequencyToList_, c.minFrequency_)
                             ELSE Store(c.frequencyToList_, c.minFrequency_, r.list)]

\* mutant: the capacity test is > instead of >=
evictLFU_offByOne(c) ==
    IF size(c) <= MaxSize THEN c
    ELSE IF c.minFrequency_ \notin DOMAIN c.frequencyToList_ THEN c
    ELSE IF empty(c.frequencyToList_[c.minFrequency_]) THEN c
    ELSE LET list == c.frequencyToList_[c.minFrequency_]
             lru == list.tail
         IN IF lru = NULL THEN [c EXCEPT !.fault = "null_deref"]
            ELSE LET r == remove(c.nodePool_, list, lru)
                     lruKey == r.pool[lru].key
                     c1 == [c EXCEPT !.nodePool_ = r.pool,
                                     !.keyToNode_ =
                                         [k \in Keys |-> IF k = lruKey THEN NULL
                                                         ELSE c.keyToNode_[k]]]
                     c2 == deallocateNode(c1, lru)
                 IN IF c2.fault # "none" THEN c2
                    ELSE [c2 EXCEPT !.frequencyToList_ =
                             IF empty(r.list)
                             THEN Erase(c.frequencyToList_, c.minFrequency_)
                             ELSE Store(c.frequencyToList_, c.minFrequency_, r.list)]

\* mutant: the capacity test fires one key before the cache is full
evictLFU_early(c) ==
    IF size(c) < MaxSize - 1 THEN c
    ELSE IF c.minFrequency_ \notin DOMAIN c.frequencyToList_ THEN c
    ELSE IF empty(c.frequencyToList_[c.minFrequency_]) THEN c
    ELSE LET list == c.frequencyToList_[c.minFrequency_]
             lru == list.tail
         IN IF lru = NULL THEN [c EXCEPT !.fault = "null_deref"]
            ELSE LET r == remove(c.nodePool_, list, lru)
                     lruKey == r.pool[lru].key
                     c1 == [c EXCEPT !.nodePool_ = r.pool,
                                     !.keyToNode_ =
                                         [k \in Keys |-> IF k = lruKey THEN NULL
                                                         ELSE c.keyToNode_[k]]]
                     c2 == deallocateNode(c1, lru)
                 IN IF c2.fault # "none" THEN c2
                    ELSE [c2 EXCEPT !.frequencyToList_ =
                             IF empty(r.list)
                             THEN Erase(c.frequencyToList_, c.minFrequency_)
                             ELSE Store(c.frequencyToList_, c.minFrequency_, r.list)]

\* lines 305-318 of put: at capacity, unlink the tail of the minimum-frequency
\* list, erase its key and release its slot.  A null tail under a non-zero
\* size would be dereferenced by remove: the process ends there.
evictLFU(c) ==
    IF size(c) < MaxSize THEN c
    ELSE IF c.minFrequency_ \notin DOMAIN c.frequencyToList_ THEN c
    ELSE IF empty(c.frequencyToList_[c.minFrequency_]) THEN c
    ELSE LET list == c.frequencyToList_[c.minFrequency_]
             lru == list.tail
         IN IF lru = NULL THEN [c EXCEPT !.fault = "null_deref"]
            ELSE LET r == remove(c.nodePool_, list, lru)
                     lruKey == r.pool[lru].key
                     c1 == [c EXCEPT !.nodePool_ = r.pool,
                                     !.keyToNode_ =
                                         [k \in Keys |-> IF k = lruKey THEN NULL
                                                         ELSE c.keyToNode_[k]]]
                     c2 == deallocateNode(c1, lru)
                 IN IF c2.fault # "none" THEN c2
                    ELSE [c2 EXCEPT !.frequencyToList_ =
                             IF empty(r.list)
                             THEN Erase(c.frequencyToList_, c.minFrequency_)
                             ELSE Store(c.frequencyToList_, c.minFrequency_, r.list)]

\* put whose update of an existing key leaves its frequency alone
put_keepsFrequency(c, key, value) ==
    IF contains(c, key)
    THEN [c EXCEPT !.nodePool_[c.keyToNode_[key]].value = value]
    ELSE LET c1 == evictLFU(c)
             a == allocateNode(c1, key, value, 1)
             c2 == a.c
             r == addToHead(c2.nodePool_, At(c2.frequencyToList_, 1), a.node)
         IN IF c1.fault # "none" THEN c1
            ELSE IF c2.fault # "none" THEN c2
            ELSE [c2 EXCEPT !.keyToNode_[key] = a.node,
                            !.nodePool_ = r.pool,
                            !.frequencyToList_ = Store(c2.frequencyToList_, 1, r.list),
                            !.minFrequency_ = 1]

put(c, key, value) ==
    IF contains(c, key)
    THEN LET node == c.keyToNode_[key]
         IN updateFrequency([c EXCEPT !.nodePool_[node].value = value], node)
    ELSE LET c1 == evictLFU(c)
             a == allocateNode(c1, key, value, 1)
             c2 == a.c
             r == addToHead(c2.nodePool_, At(c2.frequencyToList_, 1), a.node)
         IN IF c1.fault # "none" THEN c1
            ELSE IF c2.fault # "none" THEN c2
            ELSE [c2 EXCEPT !.keyToNode_[key] = a.node,
                            !.nodePool_ = r.pool,
                            !.frequencyToList_ = Store(c2.frequencyToList_, 1, r.list),
                            !.minFrequency_ = 1]

\* get that inserts a default-constructed value on a miss, as operator[] does
get_insertsOnMiss(c, key) ==
    IF ~contains(c, key) THEN put(c, key, DefaultValue)
    ELSE updateFrequency(c, c.keyToNode_[key])

\* the hit path shared by get, getOrThrow and getOrDefault
get(c, key) ==
    IF ~contains(c, key) THEN c ELSE updateFrequency(c, c.keyToNode_[key])

getOrThrow(c, key) ==
    IF ~contains(c, key) THEN c ELSE updateFrequency(c, c.keyToNode_[key])

\* getOrDefault that does not count a hit as an access
getOrDefault_noBump(c, key) == c

getOrDefault(c, key) ==
    IF ~contains(c, key) THEN c ELSE updateFrequency(c, c.keyToNode_[key])

\* clear that leaves minFrequency_ as it was
clear_keepsMin(c) ==
    [c EXCEPT !.keyToNode_ = [k \in Keys |-> NULL],
              !.frequencyToList_ = << >>,
              !.freeNodes_ = [i \in Slots |-> IF i < c.poolSize_ THEN i
                                              ELSE c.freeNodes_[i]],
              !.freeCount_ = c.poolSize_,
              !.poolSize_ = 0]

clear(c) ==
    [c EXCEPT !.keyToNode_ = [k \in Keys |-> NULL],
              !.frequencyToList_ = << >>,
              !.freeNodes_ = [i \in Slots |-> IF i < c.poolSize_ THEN i
                                              ELSE c.freeNodes_[i]],
              !.freeCount_ = c.poolSize_,
              !.poolSize_ = 0,
              !.minFrequency_ = 0]

\* What a call hands back: how it ends (ret) and the value returned (out).
Void == [ret |-> "void", out |-> 0]

putResult(c, key, value) ==
    IF put(c, key, value).fault # "none"
    THEN [ret |-> put(c, key, value).fault, out |-> 0]
    ELSE Void

getResult(c, key) ==
    IF ~contains(c, key) THEN [ret |-> "value", out |-> DefaultValue]
    ELSE [ret |-> "value", out |-> get(c, key).nodePool_[c.keyToNode_[key]].value]

\* getOrThrow that hands back a default-constructed value on a miss
getOrThrowResult_noThrow(c, key) ==
    IF ~contains(c, key) THEN [ret |-> "value", out |-> DefaultValue]
    ELSE [ret |-> "value",
          out |-> getOrThrow(c, key).nodePool_[c.keyToNode_[key]].value]

getOrThrowResult(c, key) ==
    IF ~contains(c, key) THEN [ret |-> "KeyNotFound", out |-> 0]
    ELSE [ret |-> "value",
          out |-> getOrThrow(c, key).nodePool_[c.keyToNode_[key]].value]

\* getOrDefault that hands back a default-constructed value on a miss
getOrDefaultResult_ignoresDefault(c, key, defaultValue) ==
    IF ~contains(c, key) THEN [ret |-> "value", out |-> DefaultValue]
    ELSE [ret |-> "value",
          out |-> getOrDefault(c, key).nodePool_[c.keyToNode_[key]].value]

getOrDefaultResult(c, key, defaultValue) ==
    IF ~contains(c, key) THEN [ret |-> "value", out |-> defaultValue]
    ELSE [ret |-> "value",
          out |-> getOrDefault(c, key).nodePool_[c.keyToNode_[key]].value]

containsResult(c, key) ==
    [ret |-> IF contains(c, key) THEN "true" ELSE "false", out |-> 0]

\* ---------------------------------------------------------------- history
Contained == {k \in Keys : keyToNode_[k] # NULL}

FreqOf(k) == nodePool_[keyToNode_[k]].frequency

Remove(seq, S) == SelectSeq(seq, LAMBDA k : k \notin S)

\* progress through  put 1, put 2, put 3, [put 4 | get 1, get 2, get 1, put 4]
ScenStep(s, name, key) ==
    CASE name = "clear" -> 0
      [] name = "put" /\ key = 1 /\ s = 0 -> 1
      [] name = "put" /\ key = 2 /\ s = 1 -> 2
      [] name = "put" /\ key = 3 /\ s = 2 -> 3
      [] name = "put" /\ key = 4 /\ s = 3 -> 4
      [] name = "get" /\ key = 1 /\ s = 3 -> 5
      [] name = "get" /\ key = 2 /\ s = 5 -> 6
      [] name = "get" /\ key = 1 /\ s = 6 -> 7
      [] name = "put" /\ key = 4 /\ s = 7 -> 8
      [] OTHER -> 0 - 1

\* Slots a key, a list or a link of such a slot refers to.
RECURSIVE Closure(_, _, _)
Closure(pool, S, n) ==
    IF n = 0 THEN S
    ELSE Closure(pool,
                 S \cup (({pool[i].prev : i \in S} \cup {pool[i].next : i \in S}) \ {NULL}),
                 n - 1)

Referenced(c) ==
    Closure(c.nodePool_,
            ({c.keyToNode_[k] : k \in Keys}
             \cup {c.frequencyToList_[f].head : f \in DOMAIN c.frequencyToList_}
             \cup {c.frequencyToList_[f].tail : f \in DOMAIN c.frequencyToList_}) \ {NULL},
            MaxSize)

\* No code path reads a slot nothing refers to before allocateNode has
\* overwritten the whole Node, nor a free-stack entry at or above freeCount_
\* before deallocateNode or clear has written it: the state keeps Node0 and
\* Indeterminate for them.
Unread(c) ==
    LET refd == Referenced(c) IN
    [c EXCEPT !.nodePool_ = [i \in Slots |-> IF i \in refd
                                             THEN c.nodePool_[i] ELSE Node0],
              !.freeNodes_ = [i \in Slots |-> IF i < c.freeCount_
                                              THEN c.freeNodes_[i] ELSE Indeterminate]]

\* the object becomes c; the history follows the call
Becomes(c, name, key) ==
    /\ minFrequency_' = c.minFrequency_
    /\ \E u \in {Unread(c)} :
          nodePool_' = u.nodePool_ /\ freeNodes_' = u.freeNodes_
    /\ poolSize_' = c.poolSize_
    /\ freeCount_' = c.freeCount_
    /\ keyToNode_' = c.keyToNode_
    /\ frequencyToList_' = c.frequencyToList_
    /\ fault' = c.fault
    /\ scen' = ScenStep(scen, name, key)
    /\ fresh' = (fresh /\ name # "clear")

\* The observed call.  A behaviour of Spec observes none; a behaviour of
\* SpecObserved may observe one call, with its arguments and its result, and
\* ends with it: what follows a call is covered by the behaviours that
\* observe a later one.
Unobserved == [name |-> "off", key |-> 0, val |-> 0, ret |-> "none", out |-> 0]

Armed == [name |-> "armed", key |-> 0, val |-> 0, ret |-> "none", out |-> 0]

Observe(name, key, val, result) ==
    \/ call' = call
    \/ /\ call = Armed
       /\ call' = [name |-> name, key |-> key, val |-> val,
                   ret |-> result.ret, out |-> result.out]

Running == fault = "none" /\ call \in {Unobserved, Armed}

\* a hit may be taken while the counts stay below MaxFreq
CanHit(k) == keyToNode_[k] # NULL => (FreqOf(k) < MaxFreq /\ hits[k] < MaxFreq)

Touched(c, key) ==
    /\ hits' = [k \in Keys |-> IF c.keyToNode_[k] = NULL THEN 0
                               ELSE IF k # key THEN hits[k]
                               ELSE IF keyToNode_[k] = NULL THEN 1
                               ELSE hits[k] + 1]
    /\ touchOrder' = <<key>> \o Remove(touchOrder,
                                       {key} \cup {k \in Keys : c.keyToNode_[k] = NULL})

Untouched == UNCHANGED <<hits, touchOrder>>

\* ---------------------------------------------------------------- actions
InitCache ==
    /\ minFrequency_ = 0
    /\ nodePool_ = [i \in Slots |-> Node0]
    /\ freeNodes_ = [i \in Slots |-> Indeterminate]
    /\ poolSize_ = 0
    /\ freeCount_ = 0
    /\ keyToNode_ = [k \in Keys |-> NULL]
    /\ frequencyToList_ = << >>
    /\ fault = "none"
    /\ hits = [k \in Keys |-> 0]
    /\ touchOrder = << >>
    /\ scen = 0
    /\ fresh = TRUE

Init == InitCache /\ call = Unobserved

InitObserved == InitCache /\ call = Armed

Put(key, value) ==
    /\ Running
    /\ CanHit(key)
    /\ \E c \in {put(Cache, key, value)} :
          /\ Becomes(c, "put", key)
          /\ IF c.fault = "none" THEN Touched(c, key) ELSE Untouched
    /\ Observe("put", key, value, putResult(Cache, key, value))

Get(key) ==
    /\ Running
    /\ CanHit(key)
    /\ \E c \in {get(Cache, key)} :
          /\ Becomes(c, "get", key)
          /\ IF contains(Cache, key) THEN Touched(c, key) ELSE Untouched
    /\ Observe("get", key, 0, getResult(Cache, key))

GetOrThrow(key) ==
    /\ Running
    /\ CanHit(key)
    /\ \E c \in {getOrThrow(Cache, key)} :
          /\ Becomes(c, "getOrThrow", key)
          /\ IF contains(Cache, key) THEN Touched(c, key) ELSE Untouched
    /\ Observe("getOrThrow", key, 0, getOrThrowResult(Cache, key))

GetOrDefault(key, defaultValue) ==
    /\ Running
    /\ CanHit(key)
    /\ \E c \in {getOrDefault(Cache, key)} :
          /\ Becomes(c, "getOrDefault", key)
          /\ IF contains(Cache, key) THEN Touched(c, key) ELSE Untouched
    /\ Observe("getOrDefault", key, defaultValue,
               getOrDefaultResult(Cache, key, defaultValue))

\* contains that counts as an access of a contained key
Contains_countsAsHit(key) ==
    /\ Running
    /\ CanHit(key)
    /\ \E c \in {get(Cache, key)} :
          /\ Becomes(c, "contains", key)
          /\ IF contains(Cache, key) THEN Touched(c, key) ELSE Untouched
    /\ Observe("contains", key, 0, containsResult(Cache, key))

Contains(key) ==
    /\ Running
    /\ Becomes(Cache, "contains", key)
    /\ Untouched
    /\ Observe("contains", key, 0, containsResult(Cache, key))

Clear ==
    /\ Running
    /\ \E c \in {clear(Cache)} : Becomes(c, "clear", 0)
    /\ hits' = [k \in Keys |-> 0]
    /\ touchOrder' = << >>
    /\ Observe("clear", 0, 0, Void)

Next ==
    \/ \E key \in Keys, value \in Values : Put(key, value)
    \/ \E key \in Keys : Get(key)
    \/ \E key \in Keys : GetOrThrow(key)
    \/ \E key \in Keys, d \in Values : GetOrDefault(key, d)
    \/ \E key \in Keys : Contains(key)
    \/ Clear

Spec == Init /\ [][Next]_vars

SpecObserved == InitObserved /\ [][Next]_vars

\* A hit on a key whose frequency is IntMax, which the bound MaxFreq keeps
\* out of Next; it is explored on a cache that was never cleared, where the
\* frequency of a key is its access count.  The increment of
\* updateFrequency overflows: a build that traps signed overflow ends the
\* program there, every other build goes on with the wrapped sum.
GetAtIntMax(key, traps) ==
    /\ Running
    /\ contains(Cache, key)
    /\ fresh
    /\ FreqOf(key) = IntMax
    /\ \E c \in {IF traps THEN [Cache EXCEPT !.fault = "signed_overflow"]
                  ELSE get(Cache, key)} :
          /\ Becomes(c, "get", key)
          /\ IF traps THEN Untouched ELSE Touched(c, key)
    /\ Observe("get", key, 0, getResult(Cache, key))

NextOverflow ==
    \/ Next
    \/ \E key \in Keys, traps \in BOOLEAN : GetAtIntMax(key, traps)

SpecOverflow == Init /\ [][NextOverflow]_vars

\* ------------------------------------------------------------- vocabulary
\* slots of the list that starts at head, following next at most n times
RECURSIVE Chain(_, _, _)
Chain(pool, head, n) ==
    IF head = NULL \/ n = 0 THEN {}
    ELSE {head} \cup Chain(pool, pool[head].next, n - 1)

BucketsOf(i) ==
    {f \in DOMAIN frequencyToList_ :
        i \in Chain(nodePool_, frequencyToList_[f].head, MaxSize)}

KeysOf(i) == {k \in Keys : keyToNode_[k] = i}

OnFreeStack(i) == \E j \in Slots : j < freeCount_ /\ freeNodes_[j] = i

\* allocateNode can hand the slot out: it is on the free stack or at or
\* beyond the cursor
Free(i) == OnFreeStack(i) \/ i >= poolSize_

\* the access counts of the contained keys, by the history
MinHits == CHOOSE n \in {hits[k] : k \in Contained} : \A k \in Contained : n <= hits[k]

\* the least recently touched among the least frequently used keys
Victim ==
    LET cand == SelectSeq(touchOrder, LAMBDA k : hits[k] = MinHits)
    IN cand[Len(cand)]

\* a put of key k, absent before, has run to completion in this step
PutNew(k) == keyToNode_[k] = NULL /\ keyToNode_'[k] # NULL

Aliased == \E a, b \in Keys : a # b /\ keyToNode_[a] # NULL /\ keyToNode_[a] = keyToNode_[b]

\* ----------------------------------------------------------------- claims

\* C1: a put of an absent key into a full cache removes exactly the key with
\* the smallest access count and, among those, the oldest last touch.
C1_EvictsLeastFrequentOldest ==
    [][\A k \in Keys :
          (PutNew(k) /\ size(Cache) = capacity)
              => Contained \ Contained' = {Victim}]_vars

\* C2: size() <= capacity() after every operation, clear included.
C2_SizeWithinCapacity == size(Cache) <= capacity

\* a full cache after clear and put 1, 2, 3, 4, with two keys on one node
C2_Witness == ~fresh /\ scen = 4 /\ Aliased /\ size(Cache) = capacity

\* C3: every slot is either free (no key, in no bucket) or live (exactly one
\* key, exactly one bucket), never both.
C3_SlotFreeOrLive ==
    \A i \in Slots :
        \/ Free(i) /\ KeysOf(i) = {} /\ BucketsOf(i) = {}
        \/ ~Free(i) /\ Cardinality(KeysOf(i)) = 1 /\ Cardinality(BucketsOf(i)) = 1

\* C4: the key index is a bijection between contained keys and live nodes:
\* no two keys share a node, and a node holds the key that maps to it.
C4_KeyIndexBijection ==
    \A k \in Contained :
        /\ nodePool_[keyToNode_[k]].key = k
        /\ \A j \in Contained : j # k => keyToNode_[j] # keyToNode_[k]

\* C5: the frequency of a contained key is >= 1 and is 1 + the hits on it
\* since its last insertion.
C5_FrequencyCountsHits ==
    \A k \in Contained : FreqOf(k) >= 1 /\ FreqOf(k) = hits[k]

\* C6: in a non-empty cache minFrequency_ is the smallest frequency of a live
\* node and names a present bucket that holds a live node.
C6_MinFrequencyExact ==
    Contained # {} =>
        /\ \A k \in Contained : FreqOf(k) >= minFrequency_
        /\ \E k \in Contained : FreqOf(k) = minFrequency_
        /\ minFrequency_ \in DOMAIN frequencyToList_
        /\ frequencyToList_[minFrequency_].size > 0
        /\ \E k \in Contained : minFrequency_ \in BucketsOf(keyToNode_[k])

\* C7: put never fails, and a full cache always has a present, non-empty
\* minimum-frequency bucket whose tail is a live node.
C7_EvictionAlwaysPossible ==
    /\ fault = "none"
    /\ size(Cache) = capacity =>
        /\ minFrequency_ \in DOMAIN frequencyToList_
        /\ frequencyToList_[minFrequency_].size > 0
        /\ frequencyToList_[minFrequency_].tail # NULL
        /\ KeysOf(frequencyToList_[minFrequency_].tail) # {}

\* C8: allocateNode never finds the free stack empty with the cursor at
\* MaxSize, under every sequence of public operations, clear included.
C8_PoolNeverExhausted == fault # "pool_exhausted"

\* after clear and put 1, 2, 3, 4 the last put found no free slot and the
\* cursor at MaxSize before it evicted
C8_Witness == ~fresh /\ scen = 4 /\ freeCount_ = 0 /\ poolSize_ = MaxSize

\* C9 as stated: on a fresh cache put 1, 2, 3 gives size 3 and put 4 then
\* evicts key 3.
C9_ScenarioA_Evicts3 ==
    /\ (fresh /\ scen = 3) => size(Cache) = 3
    /\ (fresh /\ scen = 4) => size(Cache) = 3 /\ 3 \notin Contained /\ 4 \in Contained

\* C9 amended: on a fresh cache put 1, 2, 3 gives size 3 with every frequency
\* 1, and put 4 then evicts key 1, the least recently touched: keys 2, 3 and
\* 4 are contained.
C9_ScenarioA_Evicts1 ==
    /\ (fresh /\ scen = 3) =>
           size(Cache) = 3 /\ \A k \in Contained : FreqOf(k) = 1
    /\ (fresh /\ scen = 4) => size(Cache) = 3 /\ Contained = {2, 3, 4}

C9_Witness == fresh /\ scen = 4 /\ fault = "none"

\* C10: on a fresh or just cleared cache, put 1, 2, 3, get 1, 2, 1 gives the
\* frequencies 1->3, 2->2, 3->1, and put 4 then leaves exactly 1, 2 and 4.
C10_ScenarioB ==
    /\ scen = 7 => /\ {1, 2, 3} \subseteq Contained
                   /\ FreqOf(1) = 3 /\ FreqOf(2) = 2 /\ FreqOf(3) = 1
    /\ scen = 8 => Contained = {1, 2, 4}


\* ------------------------------------------------- claims on single calls
\* the step is the observed call of the operation `name`
Called(name) == call = Armed /\ call'.name = name

\* C11: in every reachable state, put(k, v) leaves k contained and the get(k)
\* that follows it returns v.
C11_PutThenGet ==
    call.name = "put" =>
        /\ contains(Cache, call.key)
        /\ getResult(Cache, call.key) = [ret |-> "value", out |-> call.val]

\* C11, for the calls of put that return: k is contained and get(k) returns v.
C11_ReturnedPutThenGet ==
    (call.name = "put" /\ call.ret = "void") => C11_PutThenGet

\* C12: put(k, v) on a contained key returns, stores v as k's value, raises
\* k's frequency by exactly 1 and evicts nothing: the contained keys, the key
\* index and size() are as before, also at capacity.
C12_PutExistingUpdates ==
    [][(Called("put") /\ contains(Cache, call'.key)) =>
          /\ call'.ret = "void"
          /\ nodePool_'[keyToNode_'[call'.key]].value = call'.val
          /\ nodePool_'[keyToNode_'[call'.key]].frequency = FreqOf(call'.key) + 1
          /\ Contained' = Contained
          /\ keyToNode_' = keyToNode_
          /\ size(Cache)' = size(Cache)]_vars

\* put of a value other than the stored one on a key hit before, at capacity
C12_Witness ==
    /\ call.name = "put" /\ call.ret = "void"
    /\ size(Cache) = capacity
    /\ hits[call.key] >= 2
    /\ FreqOf(call.key) = hits[call.key]

\* C13: get(k) on a contained key with frequency f sets the frequency of k's
\* node to f+1, unlinks the node from bucket f, links it at the head of bucket
\* f+1, moves minFrequency_ from f to f+1 exactly when f was the minimum and
\* bucket f is left empty (it is erased), and returns the stored value, which
\* it does not change.
GetHitMovesNode ==
    (Called("get") /\ contains(Cache, call'.key)) =>
          LET node == keyToNode_[call'.key]
              f == nodePool_[node].frequency
          IN /\ keyToNode_' = keyToNode_
             /\ nodePool_'[node].frequency = f + 1
             /\ f \in DOMAIN frequencyToList_' =>
                    node \notin Chain(nodePool_', frequencyToList_'[f].head, MaxSize)
             /\ (f + 1) \in DOMAIN frequencyToList_'
             /\ frequencyToList_'[f + 1].head = node
             /\ minFrequency_' = IF minFrequency_ = f /\ f \notin DOMAIN frequencyToList_'
                                 THEN f + 1 ELSE minFrequency_
             /\ call'.ret = "value"
             /\ call'.out = nodePool_[node].value
             /\ nodePool_'[node].value = nodePool_[node].value

C13_GetHitMovesNode == [][GetHitMovesNode]_vars

\* C13 on a cache that was never cleared
C13_GetHitMovesNodeFresh == [][fresh => GetHitMovesNode]_vars

\* C14: put(k, v) of an absent key adds k to the key index with a node of
\* frequency 1 that holds k and v, links the node at the head of bucket 1 and
\* sets minFrequency_ to 1, whatever it was.
PutAbsentInserts ==
    (Called("put") /\ ~contains(Cache, call'.key)) =>
        LET node == keyToNode_'[call'.key]
        IN /\ node # NULL
           /\ nodePool_'[node] = [nodePool_'[node] EXCEPT !.frequency = 1,
                                                          !.key = call'.key,
                                                          !.value = call'.val]
           /\ 1 \in DOMAIN frequencyToList_'
           /\ frequencyToList_'[1].head = node
           /\ minFrequency_' = 1

C14_PutAbsentInserts == [][PutAbsentInserts]_vars

\* C14 for the calls of put that return
C14_ReturnedPutAbsentInserts == [][call'.ret = "void" => PutAbsentInserts]_vars

\* C15: get(k) on an absent key returns the default-constructed Value and
\* changes nothing: key index, buckets, nodes, pool, free stack, cursor and
\* minFrequency_ are as before.
C15_GetMissChangesNothing ==
    [][(Called("get") /\ ~contains(Cache, call'.key)) =>
          /\ call'.ret = "value"
          /\ call'.out = DefaultValue
          /\ Cache' = Cache]_vars

\* a miss of get on a cache that holds other keys
C15_Witness ==
    /\ call.name = "get" /\ call.out = DefaultValue
    /\ ~contains(Cache, call.key)
    /\ size(Cache) = capacity

\* C16: getOrThrow(k) on an absent key ends with KeyNotFound and changes
\* nothing, and no other call ends with KeyNotFound.
C16_GetOrThrowMiss ==
    [][/\ (Called("getOrThrow") /\ ~contains(Cache, call'.key)) =>
              (call'.ret = "KeyNotFound" /\ Cache' = Cache)
       /\ (call = Armed /\ call'.ret = "KeyNotFound") =>
              (call'.name = "getOrThrow" /\ ~contains(Cache, call'.key))]_vars

\* getOrThrow has thrown on a cache that holds other keys
C16_Witness ==
    /\ call.name = "getOrThrow" /\ call.ret = "KeyNotFound"
    /\ ~contains(Cache, call.key)
    /\ size(Cache) > 0

\* C17: getOrDefault(k, d) on an absent key returns d and changes nothing:
\* k is not inserted and size() is as before.
C17_GetOrDefaultMiss ==
    [][(Called("getOrDefault") /\ ~contains(Cache, call'.key)) =>
          /\ call'.ret = "value"
          /\ call'.out = call'.val
          /\ ~contains(Cache', call'.key)
          /\ size(Cache') = size(Cache)
          /\ Cache' = Cache]_vars

\* getOrDefault has returned its argument on a cache that holds other keys
C17_Witness ==
    /\ call.name = "getOrDefault" /\ call.out = call.val
    /\ ~contains(Cache, call.key)
    /\ size(Cache) > 0

\* C18: on a contained key get(k), getOrThrow(k) and getOrDefault(k, d) are
\* interchangeable: from every reachable state the three give the same
\* successor state (frequency bump, bucket move, minFrequency_) and return
\* the same value, which is the stored one.
C18_LookupsAgreeOnHit ==
    \A k \in Contained :
        /\ getOrThrow(Cache, k) = get(Cache, k)
        /\ getOrDefault(Cache, k) = get(Cache, k)
        /\ get(Cache, k).nodePool_[keyToNode_[k]].frequency = Increment(FreqOf(k))
        /\ getResult(Cache, k) = [ret |-> "value", out |-> nodePool_[keyToNode_[k]].value]
        /\ getOrThrowResult(Cache, k) = getResult(Cache, k)
        /\ \A d \in Values : getOrDefaultResult(Cache, k, d) = getResult(Cache, k)

\* a full cache where a lookup can hit a key that was hit before, holds the
\* non-default value 2 and is alone in the bucket of the minimum frequency
C18_Witness ==
    \E k \in Contained :
        /\ size(Cache) = capacity
        /\ fault = "none" /\ CanHit(k)
        /\ hits[k] >= 2
        /\ nodePool_[keyToNode_[k]].value = 2
        /\ FreqOf(k) = minFrequency_
        /\ minFrequency_ \in DOMAIN frequencyToList_
        /\ frequencyToList_[minFrequency_].size = 1

\* the key whose node put would unlink if it had to evict now
NextVictim(c) ==
    IF c.minFrequency_ \in DOMAIN c.frequencyToList_
       /\ c.frequencyToList_[c.minFrequency_].tail # NULL
    THEN c.nodePool_[c.frequencyToList_[c.minFrequency_].tail].key
    ELSE NULL

\* C19: contains(k) changes nothing, for k present or absent: frequencies,
\* bucket orders, minFrequency_ and the next eviction victim are as before,
\* and it returns true exactly when k is in the key index.
C19_ContainsIsPure ==
    [][Called("contains") =>
          /\ Cache' = Cache
          /\ \A k \in Contained : FreqOf(k)' = FreqOf(k)
          /\ frequencyToList_' = frequencyToList_
          /\ minFrequency_' = minFrequency_
          /\ NextVictim(Cache)' = NextVictim(Cache)
          /\ hits' = hits /\ touchOrder' = touchOrder
          /\ call'.ret = (IF keyToNode_[call'.key] # NULL THEN "true" ELSE "false")]_vars

\* contains has returned true at capacity
C19_Witness ==
    /\ call.name = "contains" /\ call.ret = "true"
    /\ size(Cache) = capacity

\* contains has returned false on a cache that holds other keys
C19_WitnessAbsent ==
    /\ call.name = "contains" /\ call.ret = "false"
    /\ size(Cache) > 0

\* C20: after clear() from any reachable state size() is 0, no key is
\* contained, no bucket is left, minFrequency_ is 0 as after construction, and
\* capacity() is MaxSize as before.
C20_ClearEmpties ==
    [][Called("clear") =>
          /\ size(Cache') = 0
          /\ \A k \in Keys : ~contains(Cache', k)
          /\ frequencyToList_' = << >>
          /\ minFrequency_' = 0
          /\ capacity = MaxSize]_vars

\* clear() has been called on a cache that had used every slot of its pool
C20_Witness ==
    /\ call.name = "clear"
    /\ size(Cache) = 0
    /\ freeCount_ = MaxSize

\* ------------------------------------------------ claims on key lifecycle
\* a contained key is removed only by clear() or by a put of another, absent
\* key at capacity
RemovedOnlyByEvictionOrClear ==
    \A k \in Contained :
        keyToNode_'[k] = NULL =>
            \/ call'.name = "clear"
            \/ /\ call'.name = "put"
               /\ call'.key # k
               /\ ~contains(Cache, call'.key)
               /\ size(Cache) = capacity

\* the frequency of a key that stays contained does not decrease
FrequencyNeverDecreases ==
    \A k \in Contained :
        keyToNode_'[k] # NULL =>
            nodePool_'[keyToNode_'[k]].frequency >= FreqOf(k)

\* C21: a contained key becomes absent only through a put of a different,
\* absent key at capacity or through clear() (never through a lookup,
\* contains or a put on an existing key), and while it stays contained its
\* frequency never decreases from one state to the next.
C21_KeyLifecycle ==
    [][(call = Armed /\ call' # call) =>
          (RemovedOnlyByEvictionOrClear /\ FrequencyNeverDecreases)]_vars

\* C21, removal part only
C21_RemovalOnly ==
    [][(call = Armed /\ call' # call) => RemovedOnlyByEvictionOrClear]_vars

\* C21 on a cache that was never cleared
C21_KeyLifecycleFresh ==
    [][(call = Armed /\ call' # call /\ fresh) =>
          (RemovedOnlyByEvictionOrClear /\ FrequencyNeverDecreases)]_vars

\* C22: in every reachable state each live node is linked in exactly one
\* bucket, the one keyed by the node's own frequency field.
C22_NodeInBucketOfItsFrequency ==
    \A k \in Contained : BucketsOf(keyToNode_[k]) = {FreqOf(k)}

\* C22 on a cache that was never cleared
C22_NodeInBucketOfItsFrequencyFresh ==
    fresh => C22_NodeInBucketOfItsFrequency

MapNodesAllocated ==
    Cardinality(Contained' \ Contained)
        + Cardinality((DOMAIN frequencyToList_') \ (DOMAIN frequencyToList_))

\* C24: no operation allocates heap memory (get, put and eviction work on
\* the fixed pool only).
C24_NoHeapAllocation == [][MapNodesAllocated = 0]_vars

\* C25: in every reachable state, in particular right after clear(), no slot
\* is both on the free stack and in the never-used range [poolSize_, MaxSize),
\* and poolSize_ - freeCount_ = size().
C25_PoolAccounting ==
    /\ \A i \in Slots : ~(OnFreeStack(i) /\ i >= poolSize_)
    /\ poolSize_ - freeCount_ = size(Cache)

\* C25 on a cache that was never cleared
C25_PoolAccountingFresh == fresh => C25_PoolAccounting

\* the cache as the constructor leaves it
Constructed ==
    [minFrequency_ |-> 0, nodePool_ |-> [i \in Slots |-> Node0],
     freeNodes_ |-> [i \in Slots |-> Indeterminate], poolSize_ |-> 0,
     freeCount_ |-> 0, keyToNode_ |-> [k \in Keys |-> NULL],
     frequencyToList_ |-> << >>, fault |-> "none"]

\* C26: clear() is a full reset: a sequence of operations run right after
\* clear() gives the same contained keys and the same return values as the
\* same sequence run on a newly constructed cache (here: every sequence of two
\* puts followed by the lookups of every key).
C26_ClearIsFullReset ==
    (scen = 0 /\ ~fresh /\ fault = "none") =>
        \A k1, k2 \in Keys : \A v1, v2 \in Values :
            LET cleared == put(put(Cache, k1, v1), k2, v2)
                new == put(put(Constructed, k1, v1), k2, v2)
            IN \A k \in Keys :
                   /\ contains(cleared, k) = contains(new, k)
                   /\ getResult(cleared, k) = getResult(new, k)

\* the value get(k) returns for a contained key: the one its node stores
Stored(k) == nodePool_[keyToNode_[k]].value

\* a call sets the stored value of k only if it is a put on k, and then to
\* the value put; every other call leaves the value of a key that stays
\* contained as it was
ValueFollowsLastPut ==
    /\ (call'.name = "put" /\ call'.ret = "void") =>
           nodePool_'[keyToNode_'[call'.key]].value = call'.val
    /\ \A k \in Contained :
           (keyToNode_'[k] # NULL /\ ~(call'.name = "put" /\ call'.key = k)) =>
               nodePool_'[keyToNode_'[k]].value = Stored(k)

\* C27: in every reachable state get(k) on a contained key returns the value
\* of the most recent put(k, .), whatever was done to other keys since: put
\* on k stores its value and no other call changes it.
C27_GetReturnsLastPut ==
    [][(call = Armed /\ call' # call) => ValueFollowsLastPut]_vars

\* C27 on a cache that was never cleared
C27_GetReturnsLastPutFresh ==
    [][(call = Armed /\ call' # call /\ fresh) => ValueFollowsLastPut]_vars

\* the nodes visited from head by following next, at most n of them
RECURSIVE Walk(_, _, _)
Walk(pool, head, n) ==
    IF head = NULL \/ n = 0 THEN << >>
    ELSE <<head>> \o Walk(pool, pool[head].next, n - 1)

\* the loop of printState over one bucket ends: next leads from head to null
printStateTerminates(pool, list) ==
    Len(Walk(pool, list.head, MaxSize + 1)) <= MaxSize

WellFormed(pool, list) ==
    LET w == Walk(pool, list.head, MaxSize + 1)
    IN /\ Len(w) = list.size
       /\ \A i, j \in 1..Len(w) : w[i] = w[j] => i = j
       /\ \A i \in 1..Len(w) : KeysOf(w[i]) # {}
       /\ \A i \in 1..Len(w) : pool[w[i]].next # w[i] /\ pool[w[i]].prev # w[i]
       /\ \A i \in 1..(Len(w) - 1) : pool[w[i + 1]].prev = w[i]
       /\ IF Len(w) = 0 THEN list.head = NULL /\ list.tail = NULL
          ELSE /\ w[Len(w)] = list.tail
               /\ pool[list.head].prev = NULL
               /\ pool[list.tail].next = NULL

\* C28: in every reachable state every bucket is a well-formed doubly linked
\* list: next from head visits exactly size distinct live nodes and ends at
\* tail, prev is the inverse of next, head.prev and tail.next are null and no
\* node links to itself, so the traversal of printState terminates.
C28_BucketsWellFormed ==
    \A f \in DOMAIN frequencyToList_ :
        /\ WellFormed(nodePool_, frequencyToList_[f])
        /\ printStateTerminates(nodePool_, frequencyToList_[f])

\* C28 on a cache that was never cleared
C28_BucketsWellFormedFresh == fresh => C28_BucketsWellFormed

\* --------------------------------------- claims on a put of an absent key
\* the keys of one bucket from head to tail, by the key each node holds
OrderIn(pool, list) ==
    LET w == Walk(pool, list.head, MaxSize)
    IN [i \in 1..Len(w) |-> pool[w[i]].key]

\* the keys of S keep their relative order inside their buckets: in every
\* bucket of the state before, the keys of S appear in the same order in one
\* bucket of the state after
BucketOrderKept(S) ==
    \A f \in DOMAIN frequencyToList_ :
        LET before == SelectSeq(OrderIn(nodePool_, frequencyToList_[f]),
                                LAMBDA k : k \in S)
        IN before # << >> =>
               /\ f \in DOMAIN frequencyToList_'
               /\ SelectSeq(OrderIn(nodePool_', frequencyToList_'[f]),
                            LAMBDA k : k \in S) = before

\* the keys of S keep value and frequency
ValueAndFrequencyKept(S) ==
    \A k \in S :
        /\ nodePool_'[keyToNode_'[k]].value = Stored(k)
        /\ nodePool_'[keyToNode_'[k]].frequency = FreqOf(k)

PutAbsentAtCapacity ==
    (Called("put") /\ ~contains(Cache, call'.key) /\ size(Cache) = capacity) =>
        /\ call'.ret = "void"
        /\ size(Cache') = capacity
        /\ Cardinality(Contained \ Contained') = 1
        /\ Contained' \ Contained = {call'.key}
        /\ ValueAndFrequencyKept(Contained \cap Contained')
        /\ BucketOrderKept(Contained \cap Contained')

\* C29: a put of an absent key at size() == capacity() evicts exactly one
\* key: afterwards size() == capacity(), exactly one key contained before is
\* absent, and every other key contained before keeps its value, its
\* frequency and its relative order inside its bucket.
C29_PutAtCapacityEvictsOne == [][PutAbsentAtCapacity]_vars

\* C29 on a cache that was never cleared
C29_PutAtCapacityEvictsOneFresh == [][fresh => PutAbsentAtCapacity]_vars

PutAbsentBelowCapacity ==
    (Called("put") /\ ~contains(Cache, call'.key) /\ size(Cache) < capacity) =>
        /\ call'.ret = "void"
        /\ size(Cache') = size(Cache) + 1
        /\ Contained' = Contained \cup {call'.key}
        /\ ValueAndFrequencyKept(Contained)

\* C30: a put of an absent key at size() < capacity() evicts nothing: size()
\* grows by exactly 1 and every key contained before stays contained with its
\* value and frequency unchanged.
C30_PutBelowCapacityEvictsNone == [][PutAbsentBelowCapacity]_vars

\* C30 on a cache that was never cleared
C30_PutBelowCapacityEvictsNoneFresh == [][fresh => PutAbsentBelowCapacity]_vars

\* ------------------------------------------------------- claims on a hit
HitChangesOnlyKey ==
    (/\ call = Armed
     /\ call'.name \in {"get", "getOrThrow", "getOrDefault", "put"}
     /\ contains(Cache, call'.key)) =>
        /\ Contained' = Contained
        /\ ValueAndFrequencyKept(Contained \ {call'.key})
        /\ BucketOrderKept(Contained \ {call'.key})

\* C31: a hit on key k (get, getOrThrow, getOrDefault or put on an existing
\* key) changes only k: every other contained key keeps its value, its
\* frequency, its bucket and its order relative to the other keys of that
\* bucket.
C31_HitChangesOnlyKey == [][HitChangesOnlyKey]_vars

\* C31 on a cache that was never cleared
C31_HitChangesOnlyKeyFresh == [][fresh => HitChangesOnlyKey]_vars

\* C32: after every public operation every bucket present in
\* frequencyToList_ is non-empty and holds at least one live node, so the
\* number of buckets never exceeds size().
C32_NoEmptyBucket ==
    /\ \A f \in DOMAIN frequencyToList_ :
           /\ ~empty(frequencyToList_[f])
           /\ \E i \in Chain(nodePool_, frequencyToList_[f].head, MaxSize) :
                  KeysOf(i) # {}
    /\ Cardinality(DOMAIN frequencyToList_) <= size(Cache)

\* C32 on a cache that was never cleared
C32_NoEmptyBucketFresh == fresh => C32_NoEmptyBucket

\* ---------------------------------------------- claims on the int counters
\* a key accessed IntMax times or more has a frequency of at least 1 that
\* is above the frequency of every key accessed fewer times
HotKeyRanksHighest ==
    \A k \in Contained :
        hits[k] >= IntMax =>
            /\ FreqOf(k) >= 1
            /\ \A j \in Contained : hits[j] < hits[k] => FreqOf(j) < FreqOf(k)

\* C33: the frequency counter never wraps: on a cache that was never
\* cleared, a key hit 2^(w-1) - 1 times or more keeps a frequency of at
\* least 1 that is larger than the frequency of every less-hit key
C33_FrequencyNeverWraps == fresh => HotKeyRanksHighest

\* C33 while every frequency stays below the overflowing increment
C33_FrequencyBelowIntMax ==
    (fresh /\ \A k \in Contained : hits[k] <= IntMax) => HotKeyRanksHighest

====
